---- MODULE Spec2Model ----
(***************************************************************************)
(* A model of the Ising lattice of src/src/lattice.rs: the two             *)
(* constructors, the Metropolis step, the epoch loop, the preview image    *)
(* and the energy functions, with the writes the GUI of src/src/app.rs     *)
(* makes to the public fields temperature and magnetic_field.              *)
(*                                                                         *)
(* Numbers.  The f32 quantities of the program (couplings, field, energy,  *)
(* temperature) are modelled by integers: couplings are +1/-1, and for     *)
(* integer fields every sum the program forms is an integer far below      *)
(* 2^24, where f32 arithmetic is exact.  Temperature 0 stands for +0.0.    *)
(* The only transcendental value, exp(-energy / temperature), is kept as   *)
(* its exponent (see boltzman) and compared through logarithms.            *)
(***************************************************************************)
EXTENDS Integers, Sequences, FiniteSets, TLC

VARIABLES
    status,     \* "init": no lattice constructed yet; "ok"; "panic": the thread panicked
    lattice,    \* the Lattice value (meaningful when status # "init")
    pc,         \* "idle", or "epoch" while Lattice::epoch is running its loop
    i,          \* the loop counter of Lattice::epoch
    attempts,   \* calls of step made by the current (or the last) epoch
    last        \* the last call made on the lattice, with its inputs and what it computed

vars == <<status, lattice, pc, i, attempts, last>>

----------------------------------------------------------------------------
(* Bounds of the exploration *)

\* lattices of side 0 .. MaxSize are constructed
MaxSize == 2
\* spin-glass lattices (independent random bonds) are constructed up to this side
MaxGlassSize == 1
\* as_image is called with available_space in 0 .. MaxExtent
MaxExtent == 3
\* index is examined on coordinates -CoordRange .. CoordRange
CoordRange == 7
\* in runs of many steps, spin-glass lattices of up to this many sites are built
MaxGlassCells == 4

\* Arguments of the calls made on the API of lattice.rs
Sizes == 0 .. MaxSize
\* temperatures; 0 is +0.0
Temperatures == {-1, 0, 1}
\* magnetic fields
Fields == {0, 1}
\* p_antiferro of LatticeType::SpinGlass, in halves: -1/2, 0, 1/2, 1, 3/2
PAntiferroHalves == {-1, 0, 1, 2, 3}

\* What the widgets of app.rs produce: Slider 1..=256 for the size, 0.0..=10.0
\* for the temperature, -5.0..=5.0 for the field (0.0 from IsingApp::default is
\* the value explored in whole runs), 0.0..=1.0 for p_antiferro
GuiSizes == 1 .. MaxSize
GuiTemperatures == {0, 1}
GuiFields == {0}
GuiPAntiferroHalves == {0, 1, 2}

----------------------------------------------------------------------------
(* crate::spin::Spin: Up / Down, Into<i32> = +1 / -1, Mul gives the product *)
(* of the integer values, Neg swaps the two.                                *)

Spin == {"Up", "Down"}

SpinToInt(s) == IF s = "Up" THEN 1 ELSE -1

SpinMul(a, b) == SpinToInt(a) * SpinToInt(b)

SpinNeg(s) == IF s = "Up" THEN "Down" ELSE "Up"

----------------------------------------------------------------------------
(* InterationsStorage and LatticeType *)

FERROMAGNETIC == [up |-> 1, left |-> 1]

ANTIFERROMAGNETIC == [up |-> -1, left |-> -1]

LatticeTypes(ps) ==
    {[kind |-> "Ferromagnetic"], [kind |-> "Antiferromagnetic"]}
    \cup {[kind |-> "SpinGlass", p_antiferro |-> p] : p \in ps}

\* rand's Rng::gen_bool(p), p in halves: it panics unless 0 <= p <= 1
gen_bool_panics(p) == p < 0 \/ p > 2

\* rand's Rng::gen_bool(p): true with probability p, so the values it can return
gen_bool(p) ==
    IF p = 2 THEN {TRUE}
    ELSE IF p = 0 THEN {FALSE}
    ELSE {TRUE, FALSE}

\* (b as i32 * 2 - 1) as f32
BoolToBond(b) == (IF b THEN 1 ELSE 0) * 2 - 1

\* InterationsStorage::spin_glass: gen_bool(1.0 - p) is drawn for up and for left
spin_glass_panics(antiferromagnetic_probability) ==
    gen_bool_panics(2 - antiferromagnetic_probability)

spin_glass(antiferromagnetic_probability) ==
    {[up |-> BoolToBond(u), left |-> BoolToBond(l)] :
        u \in gen_bool(2 - antiferromagnetic_probability),
        l \in gen_bool(2 - antiferromagnetic_probability)}

----------------------------------------------------------------------------
(* Construction.  A constructor call either returns a Lattice or panics;   *)
(* its signature has no error result.                                      *)

Cells(size) == 0 .. (size * size - 1)

\* the match on lattice_type: whether building the interaction grid panics
interations_panic(size, lattice_type) ==
    IF lattice_type.kind = "SpinGlass"
    THEN size * size > 0 /\ spin_glass_panics(lattice_type.p_antiferro)
    ELSE FALSE

\* the match on lattice_type: the interaction grids it can build
interations_of(size, lattice_type) ==
    CASE lattice_type.kind = "Ferromagnetic" -> {[c \in Cells(size) |-> FERROMAGNETIC]}
      [] lattice_type.kind = "Antiferromagnetic" -> {[c \in Cells(size) |-> ANTIFERROMAGNETIC]}
      [] lattice_type.kind = "SpinGlass" ->
            IF size * size = 0 THEN {[c \in Cells(size) |-> FERROMAGNETIC]}
            ELSE [Cells(size) -> spin_glass(lattice_type.p_antiferro)]

Returned(l) == [panicked |-> FALSE, lattice |-> l]

Panicked == [panicked |-> TRUE]

\* Lattice::new_random: the outcomes of one call
new_random(size, temperature, magnetic_field, lattice_type) ==
    IF interations_panic(size, lattice_type) THEN {Panicked}
    ELSE {Returned([state |-> spins, interations |-> ints, size |-> size,
                    temperature |-> temperature, magnetic_field |-> magnetic_field]) :
            spins \in [Cells(size) -> Spin], ints \in interations_of(size, lattice_type)}

\* Lattice::new_uniform: the outcomes of one call
new_uniform(size, temperature, magnetic_field, spin, lattice_type) ==
    IF interations_panic(size, lattice_type) THEN {Panicked}
    ELSE {Returned([state |-> [c \in Cells(size) |-> spin], interations |-> ints,
                    size |-> size, temperature |-> temperature,
                    magnetic_field |-> magnetic_field]) :
            ints \in interations_of(size, lattice_type)}

----------------------------------------------------------------------------
(* Indexing *)

\* Rust's % on isize: the remainder of truncated division (sign of the dividend)
TruncRem(a, b) == IF a >= 0 THEN a % b ELSE -((-a) % b)

\* rem_euclid replaced by the % operator
rem_euclid_truncated(a, b) == TruncRem(a, b)

\* isize::rem_euclid: r = a % b; if r < 0 { r + |b| } else { r }
rem_euclid(a, b) ==
    LET r == TruncRem(a, b) IN IF r < 0 THEN r + (IF b < 0 THEN -b ELSE b) ELSE r

\* Lattice::index
index(l, x, y) == rem_euclid(x, l.size) + rem_euclid(y, l.size) * l.size

\* Lattice::get
get(l, x, y) == l.state[index(l, x, y)]

\* get_interactions taking down and right from the site's own stored entry
get_interactions_own(l, x, y) ==
    LET current == l.interations[index(l, x, y)]
    IN  [up |-> current.up, left |-> current.left, down |-> current.up,
         right |-> current.left]

\* Lattice::get_interactions
get_interactions(l, x, y) ==
    LET current == l.interations[index(l, x, y)]
        right   == l.interations[index(l, x + 1, y)]
        bottom  == l.interations[index(l, x, y + 1)]
    IN  [up |-> current.up, left |-> current.left, down |-> bottom.up, right |-> right.left]

\* flip with the coordinates exchanged
flip_transposed(l, x, y) ==
    LET k == index(l, y, x) IN [l EXCEPT !.state[k] = SpinNeg(l.state[k])]

\* Lattice::flip
flip(l, x, y) ==
    LET k == index(l, x, y) IN [l EXCEPT !.state[k] = SpinNeg(l.state[k])]

----------------------------------------------------------------------------
(* Energy *)

\* hamiltonian with the sign of the coupling terms lost
hamiltonian_unsigned(l, x, y) ==
    LET spin == get(l, x, y)
        interactions == get_interactions(l, x, y)
    IN  0
        + interactions.left  * SpinMul(spin, get(l, x - 1, y))
        + interactions.up    * SpinMul(spin, get(l, x, y - 1))
        + interactions.right * SpinMul(spin, get(l, x + 1, y))
        + interactions.down  * SpinMul(spin, get(l, x, y + 1))
        - SpinToInt(spin) * l.magnetic_field

\* Lattice::hamiltonian
hamiltonian(l, x, y) ==
    LET spin == get(l, x, y)
        interactions == get_interactions(l, x, y)
    IN  0
        + (-interactions.left)  * SpinMul(spin, get(l, x - 1, y))
        + (-interactions.up)    * SpinMul(spin, get(l, x, y - 1))
        + (-interactions.right) * SpinMul(spin, get(l, x + 1, y))
        + (-interactions.down)  * SpinMul(spin, get(l, x, y + 1))
        - SpinToInt(spin) * l.magnetic_field

RECURSIVE RowEnergy(_, _, _)
\* the inner loop of internal_energy: for x in x0..s { energy += hamiltonian(x, y) }
RowEnergy(l, y, x0) ==
    IF x0 >= l.size THEN 0 ELSE hamiltonian(l, x0, y) + RowEnergy(l, y, x0 + 1)

RECURSIVE EnergyFrom(_, _)
\* the outer loop of internal_energy: for y in y0..s
EnergyFrom(l, y0) ==
    IF y0 >= l.size THEN 0 ELSE RowEnergy(l, y0, 0) + EnergyFrom(l, y0 + 1)

\* Lattice::internal_energy
internal_energy(l) == EnergyFrom(l, 0)

----------------------------------------------------------------------------
(* The acceptance test of step.                                            *)
(*                                                                         *)
(* exp is strictly increasing and maps -infinity to 0, so for a draw u in  *)
(* [0, 1) and an exponent z, u > exp(z) exactly when ln u > z (ln 0 being  *)
(* -infinity).  A value is therefore kept as a fraction num / den with     *)
(* den >= 0, den = 0 meaning -infinity (num < 0) or +infinity (num > 0):   *)
(* boltzman yields the exponent, a draw is named by its logarithm.         *)

IsNegInf(a) == a.den = 0 /\ a.num < 0

IsPosInf(a) == a.den = 0 /\ a.num > 0

\* a > b on these values
Gt(a, b) ==
    CASE IsNegInf(a) -> FALSE
      [] IsPosInf(b) -> FALSE
      [] IsPosInf(a) -> TRUE
      [] IsNegInf(b) -> TRUE
      [] OTHER -> a.num * b.den > b.num * a.den

\* boltzman: f32::exp(-energy / temperature), as the exponent -energy / temperature.
\* IEEE division by +0.0 gives the infinity with the sign of the numerator.
boltzman(energy, temperature) ==
    IF temperature > 0 THEN [num |-> -energy, den |-> temperature]
    ELSE IF temperature < 0 THEN [num |-> energy, den |-> -temperature]
    ELSE [num |-> -energy, den |-> 0]

\* gen_range(0.0..1.0): the draws u = 0 and u = exp(-1/2), by ln u
Draws == {[num |-> -1, den |-> 0], [num |-> -1, den |-> 2]}

\* what is recorded for a step that made no acceptance draw
NoDraw == [num |-> 0, den |-> 0]

----------------------------------------------------------------------------
(* Lattice::step, for the site (x, y) and the acceptance draw the random   *)
(* generator returns.                                                      *)

\* the five-term sum of step: H at the site and at its four neighbours
FiveTerms(l, x, y) ==
    hamiltonian(l, x, y)
    + hamiltonian(l, x - 1, y)
    + hamiltonian(l, x, y - 1)
    + hamiltonian(l, x + 1, y)
    + hamiltonian(l, x, y + 1)

\* d_energy as step computes it: minus the sum before the flip, plus the sum after
d_energy(l, x, y) == -FiveTerms(l, x, y) + FiveTerms(flip(l, x, y), x, y)

\* the draw made for d_energy >= 0 instead of d_energy > 0
step_draws_inclusive(d) == IF d >= 0 THEN Draws ELSE {NoDraw}

\* the acceptance values step can draw: gen_range(0.0..1.0) is called only when
\* d_energy > 0 (the left operand of && is evaluated first)
step_draws(d) == IF d > 0 THEN Draws ELSE {NoDraw}

\* the condition of the if in step, d being d_energy: the flip is undone
step_rejects(d, temperature, draw) ==
    IF d > 0 THEN Gt(draw, boltzman(d, temperature)) ELSE FALSE

\* the lattice after step: flipped at (x, y), and flipped back when rejected
step(l, x, y, rejected) ==
    IF rejected THEN flip(flip(l, x, y), x, y) ELSE flip(l, x, y)

\* a loop over one side of the lattice instead of all its sites
epoch_range_side(l) == l.size

\* the range of the loop of Lattice::epoch
epoch_range(l) == l.size * l.size

----------------------------------------------------------------------------
(* Lattice::as_image.  The byte vector is built by the four nested loops   *)
(* of the code; egui::ColorImage::from_rgb then reads it as rows of        *)
(* 3-byte pixels.                                                          *)

BLUE == <<0, 0, 255>>

RED == <<255, 0, 0>>

RECURSIVE Repeat(_, _)
\* for _ in 0..n { push the bytes of seq }
Repeat(seq, n) == IF n <= 0 THEN <<>> ELSE seq \o Repeat(seq, n - 1)

\* the match on the spin of a site: blue for Up, red for Down
SpinBytes(s) == IF s = "Up" THEN BLUE ELSE RED

\* the scale without its + 1
image_scale_floor(l, available_space) == available_space \div l.size

\* available_space / self.size + 1 (usize division)
image_scale(l, available_space) == (available_space \div l.size) + 1

RECURSIVE ImageRow(_, _, _, _)
\* for x in x0..size { scale pixels of the colour of site (x, y) }
ImageRow(l, scale, y, x0) ==
    IF x0 >= l.size THEN <<>>
    ELSE Repeat(SpinBytes(get(l, x0, y)), scale) \o ImageRow(l, scale, y, x0 + 1)

RECURSIVE ImageRows(_, _, _)
\* for y in y0..size { for _ in 0..scale { one row of pixels } }
ImageRows(l, scale, y0) ==
    IF y0 >= l.size THEN <<>>
    ELSE Repeat(ImageRow(l, scale, y0, 0), scale) \o ImageRows(l, scale, y0 + 1)

\* egui::ColorImage::from_rgb(size, rgb): the pixels are the 3-byte chunks of rgb
from_rgb(size, rgb) ==
    [size   |-> size,
     pixels |-> [k \in 1 .. (Len(rgb) \div 3) |->
                    <<rgb[3 * k - 2], rgb[3 * k - 1], rgb[3 * k]>>]]

\* Lattice::as_image (called with size > 0: the division panics for size 0)
as_image(l, available_space) ==
    LET scale == image_scale(l, available_space)
    IN  from_rgb(<<l.size * scale, l.size * scale>>, ImageRows(l, scale, 0))

----------------------------------------------------------------------------
(* The calls.  `last` records the call the owner of the lattice made last, *)
(* with its inputs and what it computed.                                   *)

\* the value of `lattice` before any constructor has run
NoLattice ==
    [state |-> <<>>, interations |-> <<>>, size |-> 0, temperature |-> 0,
     magnetic_field |-> 0]

\* whether gen_bool can return both values for a bond (0 < p < 1)
RandomBonds(lattice_type) ==
    IF lattice_type.kind = "SpinGlass" THEN lattice_type.p_antiferro = 1 ELSE FALSE

\* grids of independently random bonds are explored on sides up to MaxGlassSize
\* for single calls, and on sides below MaxGlassSize in whole runs
Explored(size, lattice_type) == RandomBonds(lattice_type) => size <= MaxGlassSize

GuiExplored(size, lattice_type) == RandomBonds(lattice_type) => size < MaxGlassSize

\* what a constructor call leaves: the lattice it returned, or a panic
Constructed(outcome, call) ==
    /\ status' = IF outcome.panicked THEN "panic" ELSE "ok"
    /\ lattice' = IF outcome.panicked THEN lattice ELSE outcome.lattice
    /\ last' = call
    /\ UNCHANGED <<pc, i, attempts>>

\* a call of Lattice::new_random; types holds the pairs (size, lattice_type)
NewRandomFrom(temperatures, fields, types) ==
    /\ status = "init"
    /\ \E temperature \in temperatures, magnetic_field \in fields, t \in types :
        \E outcome \in new_random(t[1], temperature, magnetic_field, t[2]) :
            Constructed(outcome, [op |-> "new_random", size |-> t[1],
                                  lattice_type |-> t[2]])

\* a call of Lattice::new_uniform; types holds the pairs (size, lattice_type)
NewUniformFrom(temperatures, fields, types) ==
    /\ status = "init"
    /\ \E temperature \in temperatures, magnetic_field \in fields, spin \in Spin,
          t \in types :
        \E outcome \in new_uniform(t[1], temperature, magnetic_field, spin, t[2]) :
            Constructed(outcome, [op |-> "new_uniform", size |-> t[1],
                                  lattice_type |-> t[2]])

\* the arguments (size, lattice_type) of the constructor calls of the API
ApiTypes == {t \in Sizes \X LatticeTypes(PAntiferroHalves) : Explored(t[1], t[2])}

\* the arguments (size, lattice_type) of the constructor calls of IsingApp
GuiTypes == {t \in GuiSizes \X LatticeTypes(GuiPAntiferroHalves) : GuiExplored(t[1], t[2])}

\* the constructors as a caller of the API can call them
NewRandom == NewRandomFrom(Temperatures, Fields, ApiTypes)

NewUniform == NewUniformFrom(Temperatures, Fields, ApiTypes)

\* the arguments (size, lattice_type) of the constructor calls that start a run
\* of many steps: every coupling type, random bonds on up to MaxGlassCells sites
BondTypes ==
    {t \in GuiSizes \X LatticeTypes(GuiPAntiferroHalves) :
        RandomBonds(t[2]) => t[1] * t[1] <= MaxGlassCells}

\* Lattice::new_uniform called at temperature 1.0 and field 0.0 (the values of
\* IsingApp::default) to start a run of many steps
BondsNewUniform == NewUniformFrom({1}, {0}, BondTypes)

\* the constructors as IsingApp calls them (default, and "Regenerate Lattice")
GuiNewRandom == NewRandomFrom(GuiTemperatures, GuiFields, GuiTypes)

GuiNewUniform == NewUniformFrom(GuiTemperatures, GuiFields, GuiTypes)

\* the body of Lattice::step for the site (x, y) that gen_range(0..s) drew, with
\* the acceptance value that gen_range(0.0..1.0) draws when it is called; `last`
\* becomes the record of the call when the owner called step itself
StepAt(x, y, recorded) ==
    LET d == d_energy(lattice, x, y) IN
    \E draw \in step_draws(d) :
        LET rejected == step_rejects(d, lattice.temperature, draw) IN
        /\ lattice' = step(lattice, x, y, rejected)
        /\ last' = IF recorded
                   THEN [op |-> "step", panicked |-> FALSE, x |-> x, y |-> y,
                         d_energy |-> d, draw |-> draw, rejected |-> rejected,
                         pre |-> lattice]
                   ELSE last

\* the owner's next call is the first one on a freshly constructed lattice
FirstCall == status = "ok" /\ pc = "idle" /\ last.op \in {"new_random", "new_uniform"}

\* Lattice::step called on a freshly constructed lattice
Step ==
    /\ FirstCall
    /\ lattice.size > 0
    /\ \E x \in 0 .. (lattice.size - 1), y \in 0 .. (lattice.size - 1) :
        StepAt(x, y, TRUE)
    /\ UNCHANGED <<status, pc, i, attempts>>

\* Lattice::step on a lattice of size 0: gen_range(0..0) panics on the empty range
StepPanic ==
    /\ FirstCall
    /\ lattice.size = 0
    /\ status' = "panic"
    /\ last' = [op |-> "step", panicked |-> TRUE]
    /\ UNCHANGED <<lattice, pc, i, attempts>>

\* Lattice::epoch is called: the loop starts
EpochBegin ==
    /\ status = "ok"
    /\ pc = "idle"
    /\ pc' = "epoch"
    /\ i' = 0
    /\ attempts' = 0
    /\ last' = [op |-> "epoch", returned |-> FALSE]
    /\ UNCHANGED <<status, lattice>>

\* one iteration of the loop of epoch: self.step()
EpochStep ==
    /\ pc = "epoch"
    /\ i < epoch_range(lattice)
    /\ \E x \in 0 .. (lattice.size - 1), y \in 0 .. (lattice.size - 1) :
        StepAt(x, y, FALSE)
    /\ i' = i + 1
    /\ attempts' = attempts + 1
    /\ UNCHANGED <<status, pc>>

\* the range of the loop is exhausted: epoch returns
EpochEnd ==
    /\ pc = "epoch"
    /\ ~(i < epoch_range(lattice))
    /\ pc' = "idle"
    /\ i' = 0
    /\ last' = [op |-> "epoch", returned |-> TRUE]
    /\ UNCHANGED <<status, lattice, attempts>>

\* the temperature slider writes lattice.temperature
SetTemperature ==
    /\ status = "ok"
    /\ pc = "idle"
    /\ \E t \in GuiTemperatures :
        /\ lattice' = [lattice EXCEPT !.temperature = t]
        /\ last' = [op |-> "set_temperature"]
    /\ UNCHANGED <<status, pc, i, attempts>>

\* the field slider writes lattice.magnetic_field
SetMagneticField ==
    /\ status = "ok"
    /\ pc = "idle"
    /\ \E b \in GuiFields :
        /\ lattice' = [lattice EXCEPT !.magnetic_field = b]
        /\ last' = [op |-> "set_magnetic_field"]
    /\ UNCHANGED <<status, pc, i, attempts>>

\* what a returning call of as_image leaves
Rendered(available_space) ==
    /\ lattice.size > 0
    /\ last' = [op |-> "as_image", panicked |-> FALSE,
                available_space |-> available_space,
                image |-> as_image(lattice, available_space), pre |-> lattice]
    /\ UNCHANGED <<status, lattice, pc, i, attempts>>

\* Lattice::as_image called on a freshly constructed lattice
AsImage == FirstCall /\ \E available_space \in 0 .. MaxExtent : Rendered(available_space)

\* Lattice::as_image on a lattice of size 0: available_space / 0 panics
AsImagePanic ==
    /\ FirstCall
    /\ lattice.size = 0
    /\ status' = "panic"
    /\ last' = [op |-> "as_image", panicked |-> TRUE]
    /\ UNCHANGED <<lattice, pc, i, attempts>>

\* IsingApp::update loads the texture when lattice_texture is None: on the first
\* frame and after every epoch
GuiAsImage ==
    /\ status = "ok"
    /\ pc = "idle"
    /\ last.op \in {"new_random", "new_uniform", "epoch"}
    /\ \E available_space \in 0 .. MaxExtent : Rendered(available_space)

Init ==
    /\ status = "init"
    /\ lattice = NoLattice
    /\ pc = "idle"
    /\ i = 0
    /\ attempts = 0
    /\ last = [op |-> "none"]

(* The program: IsingApp constructs a lattice and then, frame after frame, *)
(* lets the sliders write the two public fields, runs an epoch and renders *)
(* the lattice.                                                            *)
Next ==
    \/ GuiNewRandom
    \/ GuiNewUniform
    \/ EpochBegin
    \/ EpochStep
    \/ EpochEnd
    \/ SetTemperature
    \/ SetMagneticField
    \/ GuiAsImage

Spec == Init /\ [][Next]_vars

(* The API of lattice.rs: a constructor called with any arguments, and one *)
(* call of step or as_image on the lattice it returned.  new_random        *)
(* returns every spin configuration, so these are the steps of every run.  *)
NextCall ==
    \/ NewUniform
    \/ NewRandom
    \/ Step
    \/ StepPanic
    \/ AsImage
    \/ AsImagePanic

SpecCall == Init /\ [][NextCall]_vars

(* The bonds over runs of steps: a lattice of any coupling type is built,   *)
(* and epoch after epoch runs steps on it.                                 *)
NextBonds ==
    \/ BondsNewUniform
    \/ EpochBegin
    \/ EpochStep
    \/ EpochEnd

SpecBonds == Init /\ [][NextBonds]_vars

----------------------------------------------------------------------------
(* Properties *)

ConstructorCalled == last.op \in {"new_random", "new_uniform"}

\* a call of step that returned
Stepped == last.op = "step" /\ ~last.panicked

\* the sites whose spin differs between two lattices of the same size
Changed(before, after) == {c \in DOMAIN before.state : before.state[c] # after.state[c]}

\* C1: a constructor called with size 0 is rejected with a typed error: it neither
\* returns a Lattice (of size 0) nor panics.
C1_SizeZeroRejected ==
    (ConstructorCalled /\ last.size = 0) => status \notin {"ok", "panic"}

OutOfRange(lattice_type) ==
    IF lattice_type.kind = "SpinGlass"
    THEN lattice_type.p_antiferro < 0 \/ lattice_type.p_antiferro > 2
    ELSE FALSE

\* C2: a constructor called with a spin-glass p_antiferro outside [0, 1] is rejected
\* with a typed failure: it neither returns a Lattice nor panics.
C2_InvalidProbabilityRejected ==
    (ConstructorCalled /\ OutOfRange(last.lattice_type)) => status \notin {"ok", "panic"}

\* C3: at temperature <= 0 a step whose d_energy is > 0 leaves the grid as it was,
\* whatever the acceptance draw.
C3_NonPositiveTemperatureRejects ==
    (Stepped /\ last.pre.temperature <= 0 /\ last.d_energy > 0)
        => lattice.state = last.pre.state

\* C4: a step whose d_energy is <= 0 makes no acceptance draw and is accepted: the
\* grid differs from the grid before in exactly the selected site, whose spin is
\* negated.
C4_NonIncreasingAccepted ==
    (Stepped /\ last.d_energy <= 0) =>
        LET k == last.x + last.y * last.pre.size
        IN  /\ last.draw = NoDraw
            /\ ~last.rejected
            /\ Changed(last.pre, lattice) = {k}
            /\ lattice.state[k] = SpinNeg(last.pre.state[k])

C4_Witness ==
    /\ Stepped
    /\ last.d_energy <= 0
    /\ lattice.size >= 2
    /\ Cardinality(Changed(last.pre, lattice)) = 1

\* C5: a step changes the spin of no site but the one it selected, a rejected step
\* leaves the grid as it was, and the interaction grid, size, temperature and
\* magnetic_field are as before the step.
C5_StepFrame ==
    Stepped =>
        /\ DOMAIN lattice.state = DOMAIN last.pre.state
        /\ Changed(last.pre, lattice) \subseteq {last.x + last.y * last.pre.size}
        /\ last.rejected => lattice.state = last.pre.state
        /\ lattice.interations = last.pre.interations
        /\ lattice.size = last.pre.size
        /\ lattice.temperature = last.pre.temperature
        /\ lattice.magnetic_field = last.pre.magnetic_field

C5_Witness ==
    /\ Stepped
    /\ last.rejected
    /\ lattice.size >= 2
    /\ lattice = last.pre

\* C6: an epoch makes one call of step per iteration, can always go on until its
\* range is exhausted, and has made exactly size * size calls when it returns.
C6_EpochAttempts ==
    /\ pc = "epoch" =>
        /\ attempts = i
        /\ i <= lattice.size * lattice.size
        /\ ENABLED (EpochStep \/ EpochEnd)
    /\ (last.op = "epoch" /\ last.returned) => attempts = lattice.size * lattice.size

C6_Witness ==
    /\ last.op = "epoch"
    /\ last.returned
    /\ pc = "idle"
    /\ lattice.size = 2
    /\ attempts = 4

Coords == (-CoordRange) .. CoordRange

\* C7: index(x, y) is (x mod size) + (y mod size) * size with the non-negative
\* modulus, is unchanged by adding or subtracting size to a coordinate, and is an
\* index of both grids.
C7_ToroidalIndex ==
    (status = "ok" /\ last.op = "new_uniform" /\ lattice.size >= 1) =>
        \A x \in Coords, y \in Coords :
            LET s == lattice.size
                k == index(lattice, x, y)
            IN  /\ k = (x % s) + (y % s) * s
                /\ k = index(lattice, x + s, y)
                /\ k = index(lattice, x, y + s)
                /\ k = index(lattice, x - s, y)
                /\ k \in 0 .. (s * s - 1)
                /\ k \in DOMAIN lattice.state
                /\ k \in DOMAIN lattice.interations

C7_Witness ==
    /\ status = "ok"
    /\ last.op = "new_uniform"
    /\ lattice.size = 2
    /\ index(lattice, -1, -1) = 3
    /\ index(lattice, -3, 4) = 1

\* the lattice with every spin set to spin
Uniform(l, spin) == [l EXCEPT !.state = [c \in DOMAIN l.state |-> spin]]

IsFerromagnetic(l) == \A c \in DOMAIN l.interations : l.interations[c] = FERROMAGNETIC

\* C8: on a ferromagnetic lattice with magnetic_field = 0, no spin configuration has
\* an internal_energy below that of all-Up, nor below that of all-Down.
C8_UniformMinimal ==
    (status = "ok" /\ ConstructorCalled /\ lattice.size >= 1
        /\ IsFerromagnetic(lattice) /\ lattice.magnetic_field = 0) =>
        /\ internal_energy(Uniform(lattice, "Up")) <= internal_energy(lattice)
        /\ internal_energy(Uniform(lattice, "Down")) <= internal_energy(lattice)

C8_Witness ==
    /\ status = "ok"
    /\ ConstructorCalled
    /\ lattice.size = 2
    /\ IsFerromagnetic(lattice)
    /\ lattice.magnetic_field = 0
    /\ internal_energy(Uniform(lattice, "Up")) = -16
    /\ internal_energy(lattice) > -16

\* C9: as_image returns an image of (size * scale) x (size * scale) pixels, scale =
\* floor(available_space / size) + 1, whose pixel (px, py), row-major from the top
\* row, is blue where the spin of site (px div scale, py div scale) is Up and red
\* where it is Down; the lattice is as before the call.
C9_PreviewImage ==
    (last.op = "as_image" /\ ~last.panicked) =>
        LET s == last.pre.size
            scale == (last.available_space \div s) + 1
            w == s * scale
        IN  /\ last.image.size = <<w, w>>
            /\ Len(last.image.pixels) = w * w
            /\ \A px \in 0 .. (w - 1), py \in 0 .. (w - 1) :
                last.image.pixels[py * w + px + 1] =
                    IF last.pre.state[(px \div scale) + (py \div scale) * s] = "Up"
                    THEN <<0, 0, 255>> ELSE <<255, 0, 0>>
            /\ lattice = last.pre

C9_Witness ==
    /\ last.op = "as_image"
    /\ ~last.panicked
    /\ lattice.size = 2
    /\ last.available_space = 3
    /\ last.image.size = <<4, 4>>
    /\ lattice.state[0] = "Up"
    /\ lattice.state[1] = "Down"
    /\ last.image.pixels[2] = <<0, 0, 255>>
    /\ last.image.pixels[3] = <<255, 0, 0>>

\* C10: the d_energy that step computes is the change of internal_energy that the
\* flip of the selected site causes.
C10_DEnergyIsEnergyChange ==
    Stepped =>
        last.d_energy = internal_energy(flip(last.pre, last.x, last.y))
                        - internal_energy(last.pre)

\* the coordinates of the sites and of their neighbours across every edge
Around(l) == -1 .. l.size

\* the stored entry of the site that (x, y) wraps to
Owner(l, x, y) == l.interations[(x % l.size) + (y % l.size) * l.size]

\* C11: in every state of every run of steps, on every lattice (spin-glass ones
\* and sides 1 and 2 included) and at every site (x, y), the assembled down
\* coupling of (x, y) equals the assembled up coupling of (x, y+1), the assembled
\* right coupling of (x, y) equals the assembled left coupling of (x+1, y), and
\* both are the one value stored at the neighbour that owns the bond.
C11_BondsShared ==
    (status = "ok" /\ lattice.size >= 1) =>
        \A x \in Around(lattice), y \in Around(lattice) :
            LET here == get_interactions(lattice, x, y) IN
            /\ here.down = get_interactions(lattice, x, y + 1).up
            /\ here.right = get_interactions(lattice, x + 1, y).left
            /\ here.down = Owner(lattice, x, y + 1).up
            /\ here.right = Owner(lattice, x + 1, y).left

\* a spin-glass lattice of side 2 whose stored up values differ between the two
\* rows and whose left values differ between the two columns, after a whole
\* epoch of steps has run on it
C11_Witness ==
    /\ status = "ok"
    /\ last.op = "epoch" /\ last.returned
    /\ attempts = 4
    /\ lattice.size = 2
    /\ lattice.interations[0].up # lattice.interations[2].up
    /\ lattice.interations[0].left # lattice.interations[1].left
    /\ \E c \in DOMAIN lattice.state : lattice.state[c] # lattice.state[0]

====
